---- MODULE Spec2Model ----
(***************************************************************************)
(* port-scanner (src/app.py): a Flask service whose background scheduler   *)
(* runs save_scan_result once a minute.  A cycle loads the configuration,  *)
(* resolves every hostname, probes every (hostname, ip, port) target in a  *)
(* thread of its own, folds the results into a nested document, writes it  *)
(* to RESULT_PATH and rebuilds the prometheus gauge from that file.  Two   *)
(* HTTP handlers read the file and the gauge while cycles run.             *)
(***************************************************************************)
EXTENDS Integers, Sequences, FiniteSets, TLC

VARIABLES
    main,         \* position of main(): "start", "update", "sched", "serving"
                  \* or "crashed"
    running,      \* instances of the job save_scan_result now executing
    pc,           \* position of the executing save_scan_result
    cfg,          \* load_config: the parsed configuration (spec.items())
    hostIdx,      \* load_config: index of the hostname being resolved
    answers,      \* load_config: the ips each lookup so far returned
    spec,         \* parallel_scan: the target list load_config returned
    threads,      \* parallel_scan: one record per port_scan thread
    idx,          \* parallel_scan: index of the start loop / join loop
    result,       \* parallel_scan: the list object shared by the threads
    default_result, \* port_scan: the list object of its default result=[]
    scan_result,  \* save_scan_result: content of the list when it was returned
    pretty_json,  \* save_scan_result: the nested dict being built
    file,         \* the file RESULT_PATH
    upm,          \* position of update_prometheus_metrics
    loaded,       \* update_prometheus_metrics: what json.load returned
    cur,          \* update_prometheus_metrics: child created by labels(), not yet set
    gauges,       \* port_scan_status._metrics: label tuple -> value
    before,       \* file and gauges as they were when the running cycle began
    outcome       \* "none" before the first cycle, "running" during a cycle,
                  \* then how that cycle ended

vars == << main, running, pc, cfg, hostIdx, answers, spec, threads, idx,
           result, default_result, scan_result, pretty_json, file, upm, loaded,
           cur, gauges, before, outcome >>

(***************************************************************************)
(* Bounds of the model.                                                    *)
(***************************************************************************)
\* most addresses one gethostbyname_ex answer holds
MaxIps == 2
\* most targets one configuration expands to
MaxTargets == 2

\* APScheduler's default for add_job(..., max_instances=...), not overridden
MaxInstances == 1

(***************************************************************************)
(* Values.                                                                 *)
(***************************************************************************)
EmptyDict == [k \in {} |-> 0]

\* a port as YAML yields it: an int (80) or a str ('80')
IntPort(n) == [typ |-> "int", val |-> n]
StrPort(n) == [typ |-> "str", val |-> n]

\* str(n), the text json.dumps writes for an int key and the text of a str port
PortText(n) == CASE n = 80 -> "80" [] n = 443 -> "443" [] OTHER -> "0"

\* the key json.dumps writes for a port used as a dict key
JsonKey(port) == PortText(port.val)

Host(hostname, ports) == [hostname |-> hostname, ports |-> ports]

\* contents CONFIG_PATH may have when a cycle reads it
Configs ==
    { << >>,
      << Host("a.example", << >>) >>,
      << Host("a.example", << IntPort(80) >>) >>,
      << Host("a.example", << StrPort(80) >>) >>,
      << Host("a.example", << IntPort(80), IntPort(443) >>) >>,
      << Host("a.example", << IntPort(80), IntPort(80) >>) >>,
      << Host("a.example", << IntPort(80) >>), Host("b.example", << IntPort(80) >>) >> }

\* the addresses a lookup may return, in resolution order
Addrs == << "10.0.0.1", "10.0.0.2", "10.0.0.3", "10.0.0.4" >>

\* the state of RESULT_PATH: absent, truncated to nothing, a prefix of a
\* document, or a whole document
NoFile == [kind |-> "absent", doc |-> EmptyDict]
Truncated == [kind |-> "empty", doc |-> EmptyDict]
Partial == [kind |-> "partial", doc |-> EmptyDict]
Whole(doc) == [kind |-> "full", doc |-> doc]

\* documents a previous run of the service may have left in RESULT_PATH
StaleDoc == "b.example" :> ("10.0.0.1" :> ("443" :> "open"))
InitFiles == { NoFile, Whole(EmptyDict), Whole(StaleDoc) }

(***************************************************************************)
(* Pure functions of the program.                                          *)
(***************************************************************************)
\* d[k] = v on a dict
Put(d, k, v) == [x \in DOMAIN d \cup {k} |-> IF x = k THEN v ELSE d[x]]

\* the addresses and the ports are paired off instead of combined
ExpandPaired(hostname, ips, ports) ==
    [n \in 1..(IF Len(ips) < Len(ports) THEN Len(ips) ELSE Len(ports)) |->
        << hostname, ips[n], ports[n] >>]

\* load_config, the two inner loops: one [hostname, ip, port] per address and
\* port, the ports of the first address first
Expand(hostname, ips, ports) ==
    [n \in 1..(Len(ips) * Len(ports)) |->
        << hostname,
           ips[((n - 1) \div Len(ports)) + 1],
           ports[((n - 1) % Len(ports)) + 1] >>]

\* socket.connect_ex((ip, port)) raises TypeError for a port that is no int
ConnectRaises(host_port) == host_port[3].typ # "int"

\* the hostname's dict is created anew for every entry
RECURSIVE AggregateResetsHost(_, _)
AggregateResetsHost(pj, xs) ==
    IF xs = << >> THEN pj
    ELSE LET x == Head(xs)
             text == IF x[4] = 1 THEN "open" ELSE "closed"
         IN  AggregateResetsHost(
                 Put(pj, x[1], Put(EmptyDict, x[2], Put(EmptyDict, x[3], text))),
                 Tail(xs))

\* a port that already has a status keeps it
RECURSIVE AggregateKeepsFirst(_, _)
AggregateKeepsFirst(pj, xs) ==
    IF xs = << >> THEN pj
    ELSE LET x == Head(xs)
             text == IF x[4] = 1 THEN "open" ELSE "closed"
             pj1 == IF x[1] \notin DOMAIN pj THEN Put(pj, x[1], EmptyDict) ELSE pj
             pj2 == IF x[2] \notin DOMAIN pj1[x[1]]
                       THEN Put(pj1, x[1], Put(pj1[x[1]], x[2], EmptyDict))
                       ELSE pj1
             pj3 == IF x[3] \in DOMAIN pj2[x[1]][x[2]]
                       THEN pj2
                       ELSE Put(pj2, x[1],
                                Put(pj2[x[1]], x[2], Put(pj2[x[1]][x[2]], x[3], text)))
         IN  AggregateKeepsFirst(pj3, Tail(xs))

\* save_scan_result, the loop over scan_result
RECURSIVE Aggregate(_, _)
Aggregate(pj, xs) ==
    IF xs = << >> THEN pj
    ELSE LET x == Head(xs)
             hostname == x[1]
             ip == x[2]
             port == x[3]
             status == x[4]
             pj1 == IF hostname \notin DOMAIN pj
                       THEN Put(pj, hostname, EmptyDict) ELSE pj
             pj2 == IF ip \notin DOMAIN pj1[hostname]
                       THEN Put(pj1, hostname, Put(pj1[hostname], ip, EmptyDict))
                       ELSE pj1
             text == IF status = 1 THEN "open" ELSE "closed"
             pj3 == Put(pj2, hostname,
                        Put(pj2[hostname], ip, Put(pj2[hostname][ip], port, text)))
         IN  Aggregate(pj3, Tail(xs))

\* json.dumps followed by json.load: the same nesting, every port key as text
Dumps(pj) ==
    [h \in DOMAIN pj |->
        [ip \in DOMAIN pj[h] |->
            [k \in {JsonKey(p) : p \in DOMAIN pj[h][ip]} |->
                pj[h][ip][CHOOSE p \in DOMAIN pj[h][ip] : JsonKey(p) = k]]]]

\* the (hostname, ip, port) label tuples of a document
DocKeys(doc) ==
    UNION { UNION { { << h, ip, p >> : p \in DOMAIN doc[h][ip] } :
                    ip \in DOMAIN doc[h] } : h \in DOMAIN doc }

\* the value update_prometheus_metrics sets for a status
GaugeValue(status) == IF status = "open" THEN 1 ELSE 0

\* the gauge a finished update_prometheus_metrics leaves for a document
GaugesOf(doc) ==
    [key \in DocKeys(doc) |-> GaugeValue(doc[key[1]][key[2]][key[3]])]

\* json.load(open(RESULT_PATH)) succeeds on a whole document only
Loadable(f) == f.kind = "full"

\* GET /port-scanner/scan
read_result(f) ==
    IF Loadable(f) THEN [status |-> 200, body |-> f.doc]
                   ELSE [status |-> 500, body |-> EmptyDict]

\* GET /port-scanner/metrics
metrics(g) == [status |-> 200, body |-> g]

(***************************************************************************)
(* Initial state: the process has been started, main() has not run yet.    *)
(***************************************************************************)
NoKey == << >>

Init ==
    /\ main = "start"
    /\ running = 0
    /\ pc = "idle"
    /\ cfg = << >>
    /\ hostIdx = 0
    /\ answers = << >>
    /\ spec = << >>
    /\ threads = << >>
    /\ idx = 0
    /\ result = << >>
    /\ default_result = << >>
    /\ scan_result = << >>
    /\ pretty_json = EmptyDict
    /\ file \in InitFiles
    /\ upm = "none"
    /\ loaded = EmptyDict
    /\ cur = NoKey
    /\ gauges = EmptyDict
    /\ before = [file |-> file, gauges |-> EmptyDict]
    /\ outcome = "none"

\* the locals of save_scan_result, parallel_scan and load_config are gone
\* when the job returns or raises
DropLocals ==
    /\ cfg' = << >>
    /\ hostIdx' = 0
    /\ answers' = << >>
    /\ spec' = << >>
    /\ threads' = << >>
    /\ idx' = 0
    /\ result' = << >>
    /\ scan_result' = << >>
    /\ pretty_json' = EmptyDict

\* the job ends, by return or by an exception the executor logs
EndCycle(how) ==
    /\ pc' = "idle"
    /\ running' = running - 1
    /\ outcome' = how
    /\ DropLocals

(***************************************************************************)
(* The scheduler (main, lines 144-145): the cron trigger fires every       *)
(* minute; a run is submitted unless max_instances runs of the job are     *)
(* executing, and is skipped otherwise.                                    *)
(***************************************************************************)
MaySubmitAlways == TRUE

MaySubmit == running < MaxInstances

sched_fire ==
    /\ main = "serving"
    /\ IF MaySubmit
          THEN /\ running' = running + 1
               /\ pc' = "load"
               /\ before' = [file |-> file, gauges |-> gauges]
               /\ outcome' = "running"
               /\ DropLocals
               /\ UNCHANGED << main, file, upm, loaded, cur, gauges,
                               default_result >>
          ELSE UNCHANGED vars

(***************************************************************************)
(* load_config (lines 33-41), called first thing by parallel_scan.         *)
(***************************************************************************)
load_config_open ==
    /\ pc = "load"
    /\ \E c \in Configs :
         /\ cfg' = c
         /\ hostIdx' = 1
         /\ answers' = << >>
         /\ spec' = << >>
         /\ result' = << >>
         /\ pretty_json' = EmptyDict
    /\ pc' = "resolve"
    /\ UNCHANGED << main, running, threads, idx, scan_result, file, upm,
                    loaded, cur, gauges, before, outcome, default_result >>

\* socket.gethostbyname_ex answers with k addresses
load_config_resolve ==
    /\ pc = "resolve"
    /\ hostIdx <= Len(cfg)
    /\ \E k \in 1..MaxIps :
         LET h == cfg[hostIdx]
             ips == SubSeq(Addrs, 1, k)
             more == Expand(h.hostname, ips, h.ports)
         IN  /\ Len(spec) + Len(more) <= MaxTargets
             /\ answers' = Append(answers, ips)
             /\ spec' = spec \o more
    /\ hostIdx' = hostIdx + 1
    /\ UNCHANGED << main, running, pc, cfg, threads, idx, result, scan_result,
                    pretty_json, file, upm, loaded, cur, gauges, before,
                    outcome, default_result >>

\* the error is swallowed and the loop goes on to the next hostname
load_config_raise_swallowed ==
    /\ pc = "resolve"
    /\ hostIdx <= Len(cfg)
    /\ hostIdx' = hostIdx + 1
    /\ outcome' = "resolve_failed"
    /\ UNCHANGED << main, running, pc, cfg, answers, spec, threads, idx,
                    result, scan_result, pretty_json, file, upm, loaded, cur,
                    gauges, before, default_result >>

\* socket.gethostbyname_ex raises socket.gaierror: nothing catches it
load_config_raise ==
    /\ pc = "resolve"
    /\ hostIdx <= Len(cfg)
    /\ EndCycle("resolve_failed")
    /\ UNCHANGED << main, file, upm, loaded, cur, gauges, before,
                    default_result >>

(***************************************************************************)
(* parallel_scan (lines 64-70) and the port_scan threads (lines 49-57).    *)
(***************************************************************************)
\* what sock.connect_ex may return: 0, EAGAIN when the timeout expires,
\* ECONNREFUSED, EHOSTUNREACH and the like
ConnectResults == {0, 11, 111}

\* connect_ex has not returned
NoRc == -1

\* the thread is created with args=(host_port,) only: port_scan's result
\* parameter keeps its default, the list made when the function was defined
ThreadWithoutResult(st, host_port) ==
    [st |-> st, host_port |-> host_port, rc |-> NoRc, sink |-> "default"]

\* a thread, the host_port list it was given, what connect_ex returned in it
\* and the list its result parameter is bound to; port_scan appends the
\* status to host_port in place, spec keeps the targets as load_config
\* returned them
Thread(st, host_port) ==
    [st |-> st, host_port |-> host_port, rc |-> NoRc, sink |-> "result"]

\* line 66: one Thread object per target, none started
parallel_scan_threads ==
    /\ pc = "resolve"
    /\ hostIdx > Len(cfg)
    /\ threads' = [i \in 1..Len(spec) |-> Thread("new", spec[i])]
    /\ idx' = 1
    /\ pc' = "start"
    /\ UNCHANGED << main, running, cfg, answers, hostIdx, spec, result,
                    scan_result, pretty_json, file, upm, loaded, cur, gauges,
                    before, outcome, default_result >>

\* line 68: t.start(), one thread after the other
parallel_scan_start ==
    /\ pc = "start"
    /\ IF idx <= Len(threads)
          THEN /\ threads' = [threads EXCEPT ![idx].st = "started"]
               /\ idx' = idx + 1
               /\ pc' = pc
          ELSE /\ idx' = 1
               /\ pc' = "join"
               /\ threads' = threads
    /\ UNCHANGED << main, running, cfg, answers, hostIdx, spec, result,
                    scan_result, pretty_json, file, upm, loaded, cur, gauges,
                    before, outcome, default_result >>

\* lines 51-52 and 54-55: what port_scan appends to host_port
Status(rc) == IF rc = 0 THEN 1 ELSE 0

\* lines 49-52 and 55: connect_ex returns 0 or an errno and the status is
\* appended to the thread's own host_port; or connect_ex raises and the
\* thread ends there
port_scan_connect(i) ==
    /\ threads[i].st = "started"
    /\ IF ConnectRaises(threads[i].host_port)
          THEN threads' = [threads EXCEPT ![i].st = "raised"]
          ELSE \E rc \in ConnectResults :
                 threads' = [threads EXCEPT
                               ![i].st = "ready",
                               ![i].rc = rc,
                               ![i].host_port = Append(@, Status(rc))]
    /\ UNCHANGED << main, running, pc, cfg, answers, hostIdx, spec, idx,
                    result, scan_result, pretty_json, file, upm, loaded, cur,
                    gauges, before, outcome, default_result >>

\* the threads now inside result.append
Appending == { i \in DOMAIN threads : threads[i].st = "appending" }

MayAppendUnserialized(i) == TRUE

\* list.append runs as one interpreter-level operation on the list: a thread
\* enters it only while no other thread is inside
MayAppend(i) == Appending = {}

\* lines 53 and 56: result.append(host_port) begins
port_scan_append_begin(i) ==
    /\ threads[i].st = "ready"
    /\ MayAppend(i)
    /\ threads' = [threads EXCEPT ![i].st = "appending"]
    /\ UNCHANGED << main, running, pc, cfg, answers, hostIdx, spec, idx,
                    result, scan_result, pretty_json, file, upm, loaded, cur,
                    gauges, before, outcome, default_result >>

\* lines 53 and 56: result.append(host_port) completes; line 57; the thread ends
port_scan_append_end(i) ==
    /\ threads[i].st = "appending"
    /\ IF threads[i].sink = "result"
          THEN /\ result' = Append(result, threads[i].host_port)
               /\ default_result' = default_result
          ELSE /\ default_result' = Append(default_result, threads[i].host_port)
               /\ result' = result
    /\ threads' = [threads EXCEPT ![i].st = "done"]
    /\ UNCHANGED << main, running, pc, cfg, answers, hostIdx, spec, idx,
                    scan_result, pretty_json, file, upm, loaded, cur, gauges,
                    before, outcome >>

port_scan ==
    \E i \in DOMAIN threads :
        \/ port_scan_connect(i)
        \/ port_scan_append_begin(i)
        \/ port_scan_append_end(i)

\* a thread that returned or raised is no longer alive
Ended(t) == t.st \in {"done", "raised"}

JoinedWithoutWaiting(t) == TRUE

\* join returns only for a thread that returned normally
JoinedOnlyIfReturned(t) == t.st = "done"

\* Thread.join returns once the thread has ended
Joined(t) == Ended(t)

\* lines 69-70: t.join(), one thread after the other, then return result
parallel_scan_join ==
    /\ pc = "join"
    /\ IF idx <= Len(threads)
          THEN /\ Joined(threads[idx])
               /\ idx' = idx + 1
               /\ pc' = pc
               /\ scan_result' = scan_result
          ELSE /\ idx' = idx
               /\ pc' = "aggregate"
               /\ scan_result' = result
    /\ UNCHANGED << main, running, cfg, answers, hostIdx, spec, threads,
                    result, pretty_json, file, upm, loaded, cur, gauges,
                    before, outcome, default_result >>

(***************************************************************************)
(* save_scan_result (lines 88-102) after parallel_scan has returned.       *)
(***************************************************************************)
\* lines 90-99: the loop iterates the list object parallel_scan returned
save_aggregate ==
    /\ pc = "aggregate"
    /\ pretty_json' = Aggregate(EmptyDict, result)
    /\ pc' = "open"
    /\ UNCHANGED << main, running, cfg, answers, hostIdx, spec, threads, idx,
                    result, scan_result, file, upm, loaded, cur, gauges,
                    before, outcome, default_result >>

\* update_prometheus_metrics is called before the file is written
save_open_update_first ==
    /\ pc = "open"
    /\ pc' = "update"
    /\ upm' = "load"
    /\ UNCHANGED << main, running, cfg, answers, hostIdx, spec, threads, idx,
                    result, default_result, scan_result, pretty_json, file,
                    loaded, cur, gauges, before, outcome >>

\* line 100: open(RESULT_PATH, 'w') creates or truncates the file
save_open ==
    /\ pc = "open"
    /\ file' = Truncated
    /\ pc' = "write"
    /\ UNCHANGED << main, running, cfg, answers, hostIdx, spec, threads, idx,
                    result, scan_result, pretty_json, upm, loaded, cur,
                    gauges, before, outcome, default_result >>

\* line 100: open raises OSError (no permission, read-only storage)
save_open_raise ==
    /\ pc = "open"
    /\ EndCycle("write_failed")
    /\ UNCHANGED << main, file, upm, loaded, cur, gauges, before,
                    default_result >>

\* line 101: part of the text has reached the file
save_write_part ==
    /\ pc = "write"
    /\ file = Truncated
    /\ file' = Partial
    /\ UNCHANGED << main, running, pc, cfg, answers, hostIdx, spec, threads,
                    idx, result, scan_result, pretty_json, upm, loaded, cur,
                    gauges, before, outcome, default_result >>

\* lines 100-102: the text is written and the file closed; then
\* update_prometheus_metrics is called
save_write ==
    /\ pc = "write"
    /\ file' = Whole(Dumps(pretty_json))
    /\ pc' = "update"
    /\ upm' = "load"
    /\ UNCHANGED << main, running, cfg, answers, hostIdx, spec, threads, idx,
                    result, scan_result, pretty_json, loaded, cur, gauges,
                    before, outcome, default_result >>

\* update_prometheus_metrics is called although the write raised
save_write_raise_then_update ==
    /\ pc = "write"
    /\ pc' = "update"
    /\ upm' = "load"
    /\ UNCHANGED << main, running, cfg, answers, hostIdx, spec, threads, idx,
                    result, default_result, scan_result, pretty_json, file,
                    loaded, cur, gauges, before, outcome >>

\* lines 100-101: write or the flush at close raises OSError (storage full,
\* I/O error); the file keeps what had reached it
save_write_raise ==
    /\ pc = "write"
    /\ EndCycle("write_failed")
    /\ UNCHANGED << main, file, upm, loaded, cur, gauges, before,
                    default_result >>

(***************************************************************************)
(* update_prometheus_metrics (lines 108-117), called by main before the    *)
(* scheduler exists and by save_scan_result at the end of every cycle.     *)
(***************************************************************************)
\* lines 108-109: json.load returns the document, or open or json.load
\* raises and the caller ends: main before the scheduler is started, the job
\* with the exception logged
upm_load ==
    /\ upm = "load"
    /\ IF Loadable(file)
          THEN /\ loaded' = file.doc
               /\ upm' = "clear"
               /\ UNCHANGED << main, running, pc, cfg, answers, hostIdx, spec,
                               threads, idx, result, scan_result, pretty_json,
                               outcome >>
          ELSE /\ loaded' = EmptyDict
               /\ upm' = "none"
               /\ IF main = "update"
                     THEN /\ main' = "crashed"
                          /\ UNCHANGED << running, pc, cfg, answers, hostIdx,
                                          spec, threads, idx, result,
                                          scan_result, pretty_json, outcome >>
                     ELSE /\ EndCycle("update_failed")
                          /\ main' = main
    /\ UNCHANGED << file, cur, gauges, before, default_result >>

\* the old series are kept
upm_clear_skipped ==
    /\ upm = "clear"
    /\ upm' = "set"
    /\ UNCHANGED << main, running, pc, cfg, answers, hostIdx, spec, threads,
                    idx, result, scan_result, pretty_json, file, loaded, cur,
                    gauges, before, outcome, default_result >>

\* line 110: port_scan_status._metrics.clear()
upm_clear ==
    /\ upm = "clear"
    /\ gauges' = EmptyDict
    /\ upm' = "set"
    /\ UNCHANGED << main, running, pc, cfg, answers, hostIdx, spec, threads,
                    idx, result, scan_result, pretty_json, file, loaded, cur,
                    before, outcome, default_result >>

\* the series of the loaded document the loops have not reached yet
Remaining == DocKeys(loaded) \ DOMAIN gauges

\* the series the loops reach next: the loops follow the order of the
\* document, one fixed order for each document
NextKey == CHOOSE key \in Remaining : TRUE

\* lines 115 and 117, labels(hostname, ip, port): the child is created with
\* value 0; for a status other than 'open' set(0) leaves it so
upm_labels ==
    /\ upm = "set"
    /\ cur = NoKey
    /\ Remaining # {}
    /\ gauges' = Put(gauges, NextKey, 0)
    /\ cur' = IF GaugeValue(loaded[NextKey[1]][NextKey[2]][NextKey[3]]) = 1
                 THEN NextKey ELSE NoKey
    /\ UNCHANGED << main, running, pc, cfg, answers, hostIdx, spec, threads,
                    idx, result, scan_result, pretty_json, file, upm, loaded,
                    before, outcome, default_result >>

\* line 115: .set(1) on the child just created
upm_set ==
    /\ upm = "set"
    /\ cur # NoKey
    /\ gauges' = [gauges EXCEPT ![cur] = 1]
    /\ cur' = NoKey
    /\ UNCHANGED << main, running, pc, cfg, answers, hostIdx, spec, threads,
                    idx, result, scan_result, pretty_json, file, upm, loaded,
                    before, outcome, default_result >>

\* the loops are over: update_prometheus_metrics returns to main (line 143)
\* or to save_scan_result (line 102), which returns too
upm_return ==
    /\ upm = "set"
    /\ cur = NoKey
    /\ Remaining = {}
    /\ upm' = "none"
    /\ loaded' = EmptyDict
    /\ IF main = "update"
          THEN /\ main' = "sched"
               /\ UNCHANGED << running, pc, cfg, answers, hostIdx, spec,
                               threads, idx, result, scan_result, pretty_json,
                               outcome >>
          ELSE /\ EndCycle("ok")
               /\ main' = main
    /\ UNCHANGED << file, cur, gauges, before, default_result >>

(***************************************************************************)
(* main (lines 142-146).                                                   *)
(***************************************************************************)
\* main goes on to the scheduler without line 143
main_update_skipped ==
    /\ main = "start"
    /\ main' = "sched"
    /\ UNCHANGED << running, pc, cfg, answers, hostIdx, spec, threads, idx,
                    result, scan_result, pretty_json, file, upm, loaded, cur,
                    gauges, before, outcome, default_result >>

\* line 143
main_update ==
    /\ main = "start"
    /\ main' = "update"
    /\ upm' = "load"
    /\ UNCHANGED << running, pc, cfg, answers, hostIdx, spec, threads, idx,
                    result, scan_result, pretty_json, file, loaded, cur,
                    gauges, before, outcome, default_result >>

\* lines 144-146: the job is added, the scheduler thread started and
\* app.run() starts serving requests
main_sched ==
    /\ main = "sched"
    /\ main' = "serving"
    /\ UNCHANGED << running, pc, cfg, answers, hostIdx, spec, threads, idx,
                    result, scan_result, pretty_json, file, upm, loaded, cur,
                    gauges, before, outcome, default_result >>

(***************************************************************************)
(* The HTTP handlers (lines 120-139) only read: the response of a request  *)
(* served in a state is read_result(file), metrics(gauges) or the fixed    *)
(* health body.                                                            *)
(***************************************************************************)
Serving == main = "serving"

GET_scan == Serving /\ read_result(file).status \in {200, 500} /\ UNCHANGED vars

GET_metrics == Serving /\ metrics(gauges).status = 200 /\ UNCHANGED vars

GET_health == Serving /\ UNCHANGED vars

Next ==
    \/ main_update
    \/ main_sched
    \/ sched_fire
    \/ load_config_open
    \/ load_config_resolve
    \/ load_config_raise
    \/ parallel_scan_threads
    \/ parallel_scan_start
    \/ port_scan
    \/ parallel_scan_join
    \/ save_aggregate
    \/ save_open
    \/ save_open_raise
    \/ save_write_part
    \/ save_write
    \/ save_write_raise
    \/ upm_load
    \/ upm_clear
    \/ upm_labels
    \/ upm_set
    \/ upm_return
    \/ GET_scan
    \/ GET_metrics
    \/ GET_health

Spec == Init /\ [][Next]_vars

\* Every connection attempt ends (settimeout, line 50) and the interpreter
\* schedules every runnable thread: the main thread of the job in its start
\* and join loops, and the probe threads.
FairSpec ==
    /\ Spec
    /\ WF_vars(parallel_scan_start)
    /\ WF_vars(port_scan)
    /\ WF_vars(parallel_scan_join)

(***************************************************************************)
(* The claims.                                                             *)
(***************************************************************************)
\* parallel_scan has returned and save_scan_result goes on with the list
PostScan == pc \in {"aggregate", "open", "write", "update"}

\* the cycle is at or past the opening of RESULT_PATH for writing
Publishing == pc \in {"open", "write", "update"}

\* the label tuple the snapshot holds for a target
TargetKey(t) == << t[1], t[2], JsonKey(t[3]) >>

TargetKeys == { TargetKey(spec[i]) : i \in DOMAIN spec }

\* C1: parallel_scan returns exactly one result per target, whatever the
\* targets: the list has N entries and every target is the head of one.
C1_OneResultPerTarget ==
    PostScan =>
        /\ Len(scan_result) = Len(spec)
        /\ \A i \in DOMAIN spec :
             \E j \in DOMAIN scan_result : SubSeq(scan_result[j], 1, 3) = spec[i]

C3_ReaderSeesWholeSnapshot ==
    (Serving /\ Publishing) =>
        /\ read_result(file).status = 200
        /\ read_result(file).body \in {before.file.doc, Dumps(pretty_json)}

\* C4: a request to the metrics endpoint served while
\* update_prometheus_metrics runs sees the whole old or the whole new set
\* of series.
C4_ReaderSeesWholeGaugeSet ==
    (Serving /\ upm \in {"clear", "set"}) =>
        metrics(gauges).body \in {before.gauges, GaugesOf(loaded)}

\* C5: after a cycle that ended because writing RESULT_PATH failed, the file
\* is what it was before the cycle and the scan endpoint returns the same.
C5_FailedWriteKeepsSnapshot ==
    outcome = "write_failed" =>
        /\ file = before.file
        /\ read_result(file) = read_result(before.file)

\* C6: at most one save_scan_result executes at any time: the scheduler
\* never has two instances of the job running, and the one position of the
\* job is idle exactly when none runs.
C6_CyclesNeverOverlap ==
    /\ running <= 1
    /\ (running = 0) <=> (pc = "idle")

\* C6, its case: the service is up and the trigger fires (sched_fire is
\* enabled in every serving state) while a cycle is waiting for its probes.
C6_TriggerDuringCycle ==
    /\ Serving
    /\ running = 1
    /\ pc = "join"
    /\ \E i \in DOMAIN threads : ~Ended(threads[i])

\* C7: once a cycle has written RESULT_PATH, the snapshot holds an entry for
\* every target of the cycle and for nothing else.
C7_SnapshotIsExactlyTheTargets ==
    pc = "update" =>
        /\ Loadable(file)
        /\ DocKeys(file.doc) = TargetKeys

\* C8: when update_prometheus_metrics has returned (to main, or to a cycle
\* that so ends), the registry holds exactly the series of the snapshot in
\* RESULT_PATH, 1 for "open" and 0 otherwise.
C8_GaugesMirrorSnapshot ==
    (main \in {"sched", "serving"} /\ pc = "idle" /\ outcome \in {"none", "ok"}) =>
        /\ Loadable(file)
        /\ gauges = GaugesOf(file.doc)

\* C8, its case: a cycle has published, the registry before it held a series
\* of a host the new snapshot does not have, and the new set is not empty.
C8_HostDropped ==
    /\ pc = "idle"
    /\ outcome = "ok"
    /\ gauges # EmptyDict
    /\ \E old \in DOMAIN before.gauges :
         \A key \in DOMAIN gauges : key[1] # old[1]

\* C9: while load_config runs no thread exists and RESULT_PATH and the
\* registry are what they were when the cycle began; a failed lookup ends
\* the cycle there, with both still as they were.
C9_ResolveFailureAborts ==
    /\ pc \in {"load", "resolve"} =>
         /\ threads = << >>
         /\ file = before.file
         /\ gauges = before.gauges
    /\ outcome = "resolve_failed" =>
         /\ pc = "idle"
         /\ running = 0
         /\ threads = << >>
         /\ file = before.file
         /\ gauges = before.gauges

\* C9, its case: a cycle ended on a failed lookup while a snapshot and its
\* series were published.
C9_Aborted ==
    /\ outcome = "resolve_failed"
    /\ Loadable(file)
    /\ gauges # EmptyDict

\* C10: once parallel_scan has returned, every thread it started has ended
\* and the list is what it was when it was returned.
C10_JoinIsBarrier ==
    PostScan =>
        /\ \A i \in DOMAIN threads : Ended(threads[i])
        /\ result = scan_result

\* C10, its case: parallel_scan has returned the results of two probes, one
\* of which found its port closed.
C10_Returned ==
    /\ pc = "aggregate"
    /\ Len(threads) = 2
    /\ Len(scan_result) = 2
    /\ \E j \in DOMAIN scan_result : scan_result[j][4] = 0

\* C11: every probe that has ended has appended a result, whose status
\* is 1 (open) exactly when connect_ex returned 0.
C11_EveryProbeYieldsStatus ==
    \A i \in DOMAIN threads :
        Ended(threads[i]) =>
            /\ threads[i].st = "done"
            /\ Len(threads[i].host_port) = 4
            /\ (threads[i].host_port[4] = 1) <=> (threads[i].rc = 0)

\* C12: a request to the scan endpoint served before the first cycle of the
\* service has started is answered with an error, not with a success body.
C12_NoSnapshotIsAnError ==
    (Serving /\ outcome = "none") => read_result(file).status # 200

\* how often v occurs in a list
Count(xs, v) == Cardinality({ i \in DOMAIN xs : xs[i] = v })

\* the sum of f over 1..n
RECURSIVE SumTo(_, _)
SumTo(f, n) == IF n = 0 THEN 0 ELSE f[n] + SumTo(f, n - 1)

\* the hostnames of cfg load_config has resolved
Resolved == 1..Len(answers)

\* how many targets the resolved hostnames call for: for each hostname the
\* number of its addresses times the number of its ports
TargetsDue ==
    SumTo([n \in Resolved |-> Len(answers[n]) * Len(cfg[n].ports)], Len(answers))

\* how often the resolved hostnames call for the target t: once for each
\* occurrence of its address in the answer and of its port in the list
TimesDue(t) ==
    SumTo([n \in Resolved |->
             IF cfg[n].hostname = t[1]
                THEN Count(answers[n], t[2]) * Count(cfg[n].ports, t[3])
                ELSE 0],
          Len(answers))

\* every (hostname, ip, port) the resolved hostnames call for
Combinations ==
    UNION { { << cfg[n].hostname, answers[n][j], cfg[n].ports[m] >> :
                j \in DOMAIN answers[n], m \in DOMAIN cfg[n].ports } :
            n \in Resolved }

\* C13: the target list holds one target per (hostname, resolved ip,
\* configured port) of the hostnames resolved so far and no other: as many
\* as addresses times ports summed over the hostnames, each combination as
\* often as it is called for, none for a hostname without ports.
C13_OneTargetPerCombination ==
    pc \in {"resolve", "start", "join"} =>
        /\ Len(spec) = TargetsDue
        /\ \A t \in Combinations : Count(spec, t) = TimesDue(t)
        /\ \A i \in DOMAIN spec : spec[i] \in Combinations
        /\ \A n \in Resolved :
             cfg[n].ports = << >> =>
                \A i \in DOMAIN spec : spec[i][1] # cfg[n].hostname

\* C13, its case: every hostname is resolved, one of them to two addresses,
\* and the threads are about to be started for the two targets.
C13_Expanded ==
    /\ pc = "start"
    /\ Len(spec) = 2
    /\ \E n \in Resolved : Len(answers[n]) = 2 /\ Len(cfg[n].ports) = 1

\* C14: a cycle that ended because writing RESULT_PATH failed has left the
\* registry as it was and never entered update_prometheus_metrics, which a
\* cycle runs on nothing but the whole document it has just written.
C14_FailedWriteSkipsUpdate ==
    /\ outcome = "write_failed" =>
         /\ pc = "idle"
         /\ upm = "none"
         /\ gauges = before.gauges
    /\ (running > 0 /\ upm # "none") => file = Whole(Dumps(pretty_json))

\* C14, its case: the write failed after the file was truncated, while
\* series were published.
C14_WriteFailed ==
    /\ outcome = "write_failed"
    /\ ~Loadable(file)
    /\ gauges # EmptyDict

IsDone(t) == t.st = "done"

\* the results of the probes in the order of the target list
InTargetOrder ==
    LET done == SelectSeq(threads, IsDone)
    IN  [i \in DOMAIN done |-> done[i].host_port]

\* no (hostname, ip, port) occurs twice in the target list
DistinctTargets == \A i, j \in DOMAIN spec : i # j => spec[i] # spec[j]

\* C15: for distinct targets the nested dict a cycle builds is the one built
\* from the results taken in the order of the target list, whatever the
\* order in which the probes appended them; and folding the same list into
\* it once more changes nothing.
C15_OrderIndependent ==
    (Publishing /\ DistinctTargets) =>
        /\ pretty_json = Aggregate(EmptyDict, InTargetOrder)
        /\ Aggregate(pretty_json, result) = pretty_json

\* C15, its case: two probes of distinct targets of one hostname appended
\* in the reverse of the target order.
C15_ReverseCompletion ==
    /\ Publishing
    /\ DistinctTargets
    /\ Len(result) = 2
    /\ Len(threads) = 2
    /\ result[1] = threads[2].host_port
    /\ result[1][1] = result[2][1]

AllEnded == \A i \in DOMAIN threads : Ended(threads[i])

\* C16: no thread is started before every hostname is resolved; up to the
\* opening of RESULT_PATH the file and the registry are untouched; the file
\* is written only once every thread has ended; and the registry is rebuilt
\* only once the file holds the whole document of this cycle.
C16_PhasesInOrder ==
    /\ (\E i \in DOMAIN threads : threads[i].st # "new") =>
          /\ pc \notin {"load", "resolve"}
          /\ hostIdx > Len(cfg)
    /\ pc \in {"load", "resolve", "start", "join", "aggregate", "open"} =>
          /\ file = before.file
          /\ gauges = before.gauges
          /\ upm = "none"
    /\ pc = "write" =>
          /\ AllEnded
          /\ gauges = before.gauges
          /\ upm = "none"
    /\ pc = "update" =>
          /\ AllEnded
          /\ file = Whole(Dumps(pretty_json))
          /\ upm = "load" => gauges = before.gauges

\* C16, its case: a cycle of two probes has written its document and is
\* rebuilding the registry.
C16_Rebuilding ==
    /\ pc = "update"
    /\ upm = "set"
    /\ Len(threads) = 2
    /\ gauges # before.gauges
    /\ file # before.file

SameTarget(x, y) == SubSeq(x, 1, 3) = SubSeq(y, 1, 3)

\* the last entry of the list for the target of its i-th entry
LastFor(i) ==
    CHOOSE j \in DOMAIN result :
        /\ SameTarget(result[j], result[i])
        /\ \A k \in DOMAIN result : SameTarget(result[k], result[i]) => k <= j

\* C17: the nested dict holds, for the target of every entry of the result
\* list, the status of the last entry of that target.
C17_LastWriteWins ==
    Publishing =>
        \A i \in DOMAIN result :
            LET x == result[i]
            IN  /\ x[1] \in DOMAIN pretty_json
                /\ x[2] \in DOMAIN pretty_json[x[1]]
                /\ x[3] \in DOMAIN pretty_json[x[1]][x[2]]
                /\ pretty_json[x[1]][x[2]][x[3]] =
                      (IF result[LastFor(i)][4] = 1 THEN "open" ELSE "closed")

\* C17, its case: the list holds the same target twice, first open, then
\* closed, and the cycle has aggregated it.
C17_Duplicate ==
    /\ Publishing
    /\ Len(result) = 2
    /\ SameTarget(result[1], result[2])
    /\ result[1][4] = 1
    /\ result[2][4] = 0

\* C18: under FairSpec a cycle that has begun probing reaches aggregation,
\* whatever the probes returned or raised.
C18_ProbingEnds == (pc \in {"start", "join"}) ~> (pc = "aggregate")

\* C18, its case: parallel_scan has returned although a probe raised.
C18_ReturnedAfterRaise ==
    /\ pc = "aggregate"
    /\ \E i \in DOMAIN threads : threads[i].st = "raised"

DoneThreads == { i \in DOMAIN threads : threads[i].st = "done" }

\* C19: the default list of port_scan's result parameter is never appended
\* to; the list of the running call holds one entry per probe of this call
\* that has completed its append, and nothing else; so does the list the
\* call returned.
C19_FreshResultPerCall ==
    /\ default_result = << >>
    /\ Len(result) = Cardinality(DoneThreads)
    /\ \A k \in DOMAIN result :
          \E i \in DoneThreads : result[k] = threads[i].host_port
    /\ PostScan =>
          /\ Len(scan_result) <= Len(threads)
          /\ \A k \in DOMAIN scan_result :
                \E i \in DOMAIN threads : scan_result[k] = threads[i].host_port

\* C19, its case: a cycle has returned results after an earlier cycle had
\* published its own.
C19_LaterCycle ==
    /\ PostScan
    /\ scan_result # << >>
    /\ Loadable(before.file)
    /\ "a.example" \in DOMAIN before.file.doc

====
